---------------------------- MODULE Spec2Model ----------------------------
(***************************************************************************)
(* The incremental search controllers of movie-rating-app, as one state    *)
(* machine.  The repository holds four copies of the controller:           *)
(*   "movie"  : SearchAutocomplete, src/unnamed/part_002 lines 167-412     *)
(*              (justSelected flag, fetch effect gated on open)            *)
(*   "legacy" : SearchAutocomplete, src/unnamed/part_000 lines 43-219      *)
(*              (no flag, no gate)                                         *)
(*   "music"  : SearchAutocompleteMusic, src/unnamed/part_006 lines 6-76   *)
(*   "books"  : SearchAutocompleteBooks,                                   *)
(*              src/src/components/books/SearchAutocompleteBooks.tsx       *)
(* One action is one browser event (a keystroke, a timer firing, a fetch   *)
(* settling, ...) together with the React re-render and the passive        *)
(* effects it triggers, run to quiescence.                                 *)
(* Spec is one controller; SpecSlice is one controller fed result lists    *)
(* around the ten-item cut; SpecPanel is a grid of controllers with the    *)
(* panel's inputs and selections; SpecExport is the image export and       *)
(* SpecName the export under many titles, for the name of the file.        *)
(***************************************************************************)
EXTENDS Integers, Sequences, FiniteSets, TLC

VARIABLES
    variant,       \* which copy of the component this instance is
    query,         \* useState query (books: the controlled prop `value`)
    debounced,     \* useState debounced (unused by books)
    open,          \* useState open
    loading,       \* useState loading
    items,         \* useState items: sequence of candidate ids
    activeIndex,   \* useState activeIndex, 0-based, -1 = none
    justSelected,  \* useRef justSelected.current (legacy has none)
    timers,        \* pending setTimeout callbacks: the text each captured
    tLive,         \* the timer of the latest debounce run is still pending
    reqs,          \* issued fetches, by sequence number
    effReq,        \* request owned by the live cleanup closure / abortRef
    hasCleanup,    \* books: the last effect run returned a cleanup
    called,        \* candidates the last event handed to the onSelect prop
    issued,        \* queries the last event sent to the catalog
    picked,        \* the panel's Selection of this slot: selected[idx], in
                   \* BooksPanel picked[idx]; the candidate's id, 0 = null
    ev,            \* the event handled last
    afterCommit,   \* a commit happened and no user event has followed it
    afterFailure,  \* a fetch failed and no user event has followed it
    scen,          \* position in the type / debounce / response / key script
    slots,         \* panel: the search component of each slot
    inputs,        \* panel: useState inputs, one text per slot
    selected,      \* panel: useState selected / picked, one per slot (0 = null)
    pev,           \* panel: the event handled last, and the slot it was on
    ex,            \* export: the pipeline, the images under the root, its effects
    gen,           \* generate: the grid's cards and the handleGenerate calls in progress
    scrolled       \* positions in the list (0-based) whose <li> the last event
                   \* called scrollIntoView on

vars == <<variant, query, debounced, open, loading, items, activeIndex,
          justSelected, timers, tLive, reqs, effReq, hasCleanup, called,
          issued, picked, ev, afterCommit, afterFailure, scen,
          slots, inputs, selected, pev, ex, gen, scrolled>>

\* ------------------------------------------------------------- bounds
MaxRequests == 2

\* -------------------------------------------------- program constants
MinChars == 2
SliceMax == 10

Variants == {"movie", "legacy", "music", "books"}

\* --------------------------------------------------------------- text
\* A text is a sequence of one-character strings.
Digits == {"0", "1", "2", "3", "4", "5", "6", "7", "8", "9"}

IsSpace(c) == c = " "

RECURSIVE TrimLeft(_)
TrimLeft(t) == IF t # <<>> /\ IsSpace(Head(t)) THEN TrimLeft(Tail(t)) ELSE t

RECURSIVE TrimRight(_)
TrimRight(t) == IF t # <<>> /\ IsSpace(t[Len(t)]) THEN TrimRight(SubSeq(t, 1, Len(t) - 1)) ELSE t

\* String.prototype.trim
Trim(t) == TrimLeft(TrimRight(t))

\* title.replace(/\s*\(\d{4}\)\s*$/, "")
stripYear(title) ==
    LET t == TrimRight(title)
        n == Len(t)
    IN IF /\ n >= 6
          /\ t[n] = ")"
          /\ t[n - 5] = "("
          /\ \A k \in (n - 4)..(n - 1) : t[k] \in Digits
       THEN TrimRight(SubSeq(t, 1, n - 6))
       ELSE title

\* a % b of JavaScript: the sign follows the dividend
JsRem(a, b) == IF a >= 0 THEN a % b ELSE -((-a) % b)

Incep == <<"I", "n", "c", "e", "p">>

\* what the user may put in the input: nothing, one letter, one letter
\* behind a blank (two characters, one after trim), two searchable texts
Texts == {<<>>, <<"I">>, <<" ", "I">>, <<"I", "n">>, Incep}

\* ------------------------------------------------------------ catalog
\* The backend's k-th result has id k; its title cycles through three shapes.
Title(id) ==
    CASE id % 3 = 1 -> Incep \o <<" ", "(", "2", "0", "1", "0", ")">>
      [] id % 3 = 2 -> Incep
      [] OTHER -> <<"I", "n", "(", "2", "0", "1", ")">>

Results(k) == [i \in 1..k |-> i]

ResultSizes == {0, 1, 3}

\* a slip: slice(0, 11)
Slice_oneMore(res) == IF Len(res) > SliceMax + 1 THEN SubSeq(res, 1, SliceMax + 1) ELSE res

\* data.results.slice(0, 10)
Slice(res) == IF Len(res) > SliceMax THEN SubSeq(res, 1, SliceMax) ELSE res

\* ---------------------------------------------------------- requests
NewReq(q) == [q |-> q, cancelled |-> FALSE, done |-> FALSE]
DoneReq == [q |-> <<>>, cancelled |-> TRUE, done |-> TRUE]

Pending == {i \in 1..Len(reqs) : ~reqs[i].done}

\* -------------------------------------------------------------- state
St == [variant |-> variant, query |-> query, debounced |-> debounced,
       open |-> open, loading |-> loading, items |-> items,
       activeIndex |-> activeIndex, justSelected |-> justSelected,
       timers |-> timers, tLive |-> tLive, reqs |-> reqs, effReq |-> effReq,
       hasCleanup |-> hasCleanup, called |-> <<>>, issued |-> <<>>,
       picked |-> picked]

Apply(t) ==
    /\ variant' = t.variant
    /\ query' = t.query
    /\ debounced' = t.debounced
    /\ open' = t.open
    /\ loading' = t.loading
    /\ items' = t.items
    /\ activeIndex' = t.activeIndex
    /\ justSelected' = t.justSelected
    /\ timers' = t.timers
    /\ tLive' = t.tLive
    /\ reqs' = t.reqs
    /\ effReq' = t.effReq
    /\ hasCleanup' = t.hasCleanup
    /\ called' = t.called
    /\ issued' = t.issued
    /\ picked' = t.picked

Event(kind, arg, res) == [kind |-> kind, arg |-> arg, res |-> res, threw |-> FALSE]

\* ------------------------------------------------------------ effects
\* a slip: the pending timer is not cleared
clearTimeout_forgotten(s) == s

\* clearTimeout on the handle the latest debounce run keeps: a no-op once
\* that timer has fired.
clearTimeout(s) ==
    IF s.tLive
    THEN [s EXCEPT !.timers = SubSeq(@, 1, Len(@) - 1), !.tLive = FALSE]
    ELSE s

\* useEffect(() => { const t = setTimeout(() => setDebounced(query), 250);
\*                   return () => clearTimeout(t); }, [query])
\* re-run for a new query: the old run's cleanup, then the new timer.
debounceEffect(s) ==
    LET c == clearTimeout(s)
    IN [c EXCEPT !.timers = Append(@, s.query), !.tLive = TRUE]

\* return () => { cancelled = true; }   (only a run that got as far as the
\* fetch returned it)
fetchCleanup(s) ==
    IF s.effReq = 0 THEN s
    ELSE [s EXCEPT !.reqs[s.effReq] = IF @.done THEN @ ELSE [@ EXCEPT !.cancelled = TRUE],
                   !.effReq = 0]

\* let cancelled = false; (async () => { setLoading(true); ... fetch(q) ...
issueFetch(s, q) ==
    [s EXCEPT !.loading = TRUE,
              !.reqs = Append(@, NewReq(q)),
              !.issued = Append(@, q),
              !.effReq = Len(s.reqs) + 1]

\* a slip: the gate tests the flag only
fetchEffect_movie_noOpenGate(s) ==
    LET q == Trim(s.debounced)
    IN IF s.justSelected
       THEN [s EXCEPT !.justSelected = FALSE]
       ELSE IF Len(q) < MinChars
       THEN [s EXCEPT !.items = <<>>, !.open = FALSE]
       ELSE issueFetch(s, q)

\* movie: body of the fetch effect, deps [debounced, minChars, open]
fetchEffect_movie(s) ==
    LET q == Trim(s.debounced)
    IN IF s.justSelected \/ ~s.open
       THEN [s EXCEPT !.justSelected = FALSE]
       ELSE IF Len(q) < MinChars
       THEN [s EXCEPT !.items = <<>>, !.open = FALSE]
       ELSE issueFetch(s, q)

\* legacy: body of the fetch effect, deps [debounced, minChars]
fetchEffect_legacy(s) ==
    LET q == Trim(s.debounced)
    IN IF Len(q) < MinChars
       THEN [s EXCEPT !.items = <<>>, !.open = FALSE]
       ELSE issueFetch(s, q)

\* music: body of the fetch effect, deps [debounced, minChars, open]
fetchEffect_music(s) ==
    LET q == Trim(s.debounced)
    IN IF s.justSelected \/ ~s.open
       THEN [s EXCEPT !.justSelected = FALSE]
       ELSE IF Len(q) < MinChars
       THEN [s EXCEPT !.items = <<>>, !.open = FALSE]
       ELSE issueFetch(s, q)

\* abortRef.current?.abort()
abort(s) ==
    IF s.effReq = 0 THEN s
    ELSE [s EXCEPT !.reqs[s.effReq] = IF @.done THEN @ ELSE [@ EXCEPT !.cancelled = TRUE]]

\* books: return () => { clearTimeout(debounceRef.current); abortRef.current?.abort(); }
searchCleanup_books(s) ==
    IF s.hasCleanup THEN [abort(clearTimeout(s)) EXCEPT !.hasCleanup = FALSE] ELSE s

\* books: body of the debounced search effect, deps [q], q = value.trim()
searchEffect_books(s) ==
    LET q == Trim(s.query)
    IN IF s.justSelected
       THEN [s EXCEPT !.justSelected = FALSE]
       ELSE IF q = <<>>
       THEN [s EXCEPT !.items = <<>>, !.open = FALSE, !.activeIndex = -1]
       ELSE LET c == clearTimeout(s)
            IN [c EXCEPT !.timers = Append(@, q), !.tLive = TRUE, !.hasCleanup = TRUE]

\* books: the timer's callback up to its first await
timerBody_books(s, q) ==
    LET a == abort(s)
    IN [a EXCEPT !.loading = TRUE,
                 !.reqs = Append(@, NewReq(q)),
                 !.issued = Append(@, q),
                 !.effReq = Len(s.reqs) + 1]

\* One commit: every effect whose dependencies changed since the previous
\* commit runs its cleanup and then its body.
RunEffects(prev, cur) ==
    IF cur.variant = "books"
    THEN IF Trim(cur.query) # Trim(prev.query)
         THEN searchEffect_books(searchCleanup_books(cur))
         ELSE cur
    ELSE LET s1 == IF cur.query # prev.query THEN debounceEffect(cur) ELSE cur
             run == \/ cur.debounced # prev.debounced
                    \/ cur.variant # "legacy" /\ cur.open # prev.open
         IN IF ~run THEN s1
            ELSE CASE cur.variant = "movie" -> fetchEffect_movie(fetchCleanup(s1))
                   [] cur.variant = "legacy" -> fetchEffect_legacy(fetchCleanup(s1))
                   [] OTHER -> fetchEffect_music(fetchCleanup(s1))

SameDeps(a, b) == a.query = b.query /\ a.debounced = b.debounced /\ a.open = b.open

\* A setState inside an effect renders again; effects whose dependencies
\* that render changed run again, until nothing changes.
RECURSIVE Flush(_, _)
Flush(prev, cur) ==
    LET nxt == RunEffects(prev, cur)
    IN IF SameDeps(cur, nxt) THEN nxt ELSE Flush(cur, nxt)

\* ----------------------------------------------------------- handlers
\* movie, legacy, music: onChange={(e) => { setQuery(e.target.value);
\*                                           if (!open) setOpen(true); }}
onChange(s, v) == [s EXCEPT !.query = v, !.open = TRUE]

\* books: onChange={(e) => onChange(e.target.value)}, the prop being
\* BooksPanel.handleInputChange: the input, and the slot's pick dropped
handleInputChange(s, v) == [s EXCEPT !.query = v, !.picked = 0]

\* movie, music: onFocus
onFocus(s) ==
    IF s.justSelected THEN [s EXCEPT !.justSelected = FALSE]
    ELSE IF Len(Trim(s.query)) >= MinChars THEN [s EXCEPT !.open = TRUE]
    ELSE s

\* legacy: onFocus={() => query.trim().length >= minChars && setOpen(true)}
onFocus_legacy(s) ==
    IF Len(Trim(s.query)) >= MinChars THEN [s EXCEPT !.open = TRUE] ELSE s

\* movie, legacy, music: const onDown = ... setOpen(false)
onDown(s) == [s EXCEPT !.open = FALSE]

\* books: onDocClick
onDocClick(s) == [s EXCEPT !.open = FALSE, !.activeIndex = -1]

\* a slip: handleSelect without setOpen(false)
handleSelect_movie_staysOpen(s, m) ==
    [s EXCEPT !.called = Append(@, m),
              !.picked = m,
              !.justSelected = TRUE,
              !.query = stripYear(Title(m)),
              !.items = <<>>,
              !.activeIndex = -1]

\* movie: handleSelect(m); onSelect is MovieGrid's inline callback, which
\* sets selected[idx] = { id: movie.id }
handleSelect_movie(s, m) ==
    [s EXCEPT !.called = Append(@, m),
              !.picked = m,
              !.justSelected = TRUE,
              !.query = stripYear(Title(m)),
              !.items = <<>>,
              !.activeIndex = -1,
              !.open = FALSE]

\* legacy: handleSelect(m); onSelect is the page's inline callback, which
\* sets selected[idx]
handleSelect_legacy(s, m) ==
    [s EXCEPT !.called = Append(@, m),
              !.picked = m,
              !.query = stripYear(Title(m)),
              !.open = FALSE]

\* music: handleSelect(a); onSelect is MusicGrid's inline callback, which
\* sets selected[idx] = { id: a.id }
handleSelect_music(s, a) ==
    [s EXCEPT !.called = Append(@, a),
              !.picked = a,
              !.justSelected = TRUE,
              !.query = Title(a),
              !.items = <<>>,
              !.open = FALSE]

\* books: handlePick(b); onChange is BooksPanel.handleInputChange and
\* onSelect the panel's inline callback (inputs[idx], picked[idx])
handlePick(s, b) ==
    LET s1 == [s EXCEPT !.justSelected = TRUE, !.open = FALSE, !.activeIndex = -1]
        s2 == handleInputChange(s1, Title(b))
    IN [s2 EXCEPT !.called = Append(@, b), !.query = Title(b), !.picked = b]

Keys == {"ArrowDown", "ArrowUp", "Enter", "Escape"}

\* setActiveIndex((i) => (i + 1) % items.length)
nextIndex(i, n) == JsRem(i + 1, n)

\* a slip: the previous index without "+ items.length"
prevIndex_noWrap(i, n) == JsRem(i - 1, n)

\* setActiveIndex((i) => (i - 1 + items.length) % items.length)
prevIndex(i, n) == JsRem(i - 1 + n, n)

\* a slip: Enter commits the first candidate, whatever activeIndex is
onKeyDown_movie_first(s, key) ==
    LET n == Len(s.items)
        i == s.activeIndex
    IN IF ~s.open \/ n = 0 THEN s
       ELSE CASE key = "ArrowDown" -> [s EXCEPT !.activeIndex = nextIndex(i, n)]
              [] key = "ArrowUp" -> [s EXCEPT !.activeIndex = prevIndex(i, n)]
              [] key = "Enter" -> handleSelect_movie(s, s.items[1])
              [] OTHER -> [s EXCEPT !.open = FALSE]

\* movie: onKeyDown(e)
onKeyDown_movie(s, key) ==
    LET n == Len(s.items)
        i == s.activeIndex
    IN IF ~s.open \/ n = 0 THEN s
       ELSE CASE key = "ArrowDown" -> [s EXCEPT !.activeIndex = nextIndex(i, n)]
              [] key = "ArrowUp" -> [s EXCEPT !.activeIndex = prevIndex(i, n)]
              [] key = "Enter" -> IF i >= 0 /\ i < n THEN handleSelect_movie(s, s.items[i + 1]) ELSE s
              [] OTHER -> [s EXCEPT !.open = FALSE]

\* legacy: onKeyDown(e)
onKeyDown_legacy(s, key) ==
    LET n == Len(s.items)
        i == s.activeIndex
    IN IF ~s.open \/ n = 0 THEN s
       ELSE CASE key = "ArrowDown" -> [s EXCEPT !.activeIndex = nextIndex(i, n)]
              [] key = "ArrowUp" -> [s EXCEPT !.activeIndex = prevIndex(i, n)]
              [] key = "Enter" -> IF i >= 0 /\ i < n THEN handleSelect_legacy(s, s.items[i + 1]) ELSE s
              [] OTHER -> [s EXCEPT !.open = FALSE]

\* music: onKeyDown(e); Enter tests activeIndex >= 0 only, so an index past
\* the list would hand undefined to handleSelect, and onSelect(undefined)
\* throws in the panel's callback before anything else is set (candidate 0
\* stands for undefined)
onKeyDown_music(s, key) ==
    LET n == Len(s.items)
        i == s.activeIndex
    IN IF ~s.open \/ n = 0 THEN s
       ELSE CASE key = "ArrowDown" -> [s EXCEPT !.activeIndex = nextIndex(i, n)]
              [] key = "ArrowUp" -> [s EXCEPT !.activeIndex = prevIndex(i, n)]
              [] key = "Enter" -> IF i < 0 THEN s
                                  ELSE IF i < n THEN handleSelect_music(s, s.items[i + 1])
                                  ELSE [s EXCEPT !.called = Append(@, 0)]
              [] OTHER -> [s EXCEPT !.open = FALSE]

\* books: onKeyDown(e)
onKeyDown_books(s, key) ==
    LET n == Len(s.items)
        i == s.activeIndex
    IN IF ~s.open THEN s
       ELSE CASE key = "ArrowDown" -> [s EXCEPT !.activeIndex = IF n # 0 THEN nextIndex(i, n) ELSE -1]
              [] key = "ArrowUp" -> [s EXCEPT !.activeIndex = IF n # 0 THEN prevIndex(i, n) ELSE -1]
              [] key = "Enter" -> IF i >= 0 /\ i < n THEN handlePick(s, s.items[i + 1]) ELSE s
              [] OTHER -> [s EXCEPT !.open = FALSE, !.activeIndex = -1]

onKeyDown(s, key) ==
    CASE s.variant = "movie" -> onKeyDown_movie(s, key)
      [] s.variant = "legacy" -> onKeyDown_legacy(s, key)
      [] s.variant = "music" -> onKeyDown_music(s, key)
      [] OTHER -> onKeyDown_books(s, key)

handleSelect(s, c) ==
    CASE s.variant = "movie" -> handleSelect_movie(s, c)
      [] s.variant = "legacy" -> handleSelect_legacy(s, c)
      [] s.variant = "music" -> handleSelect_music(s, c)
      [] OTHER -> handlePick(s, c)

\* ----------------------------------------------------- fetch settling
Settle(s, i) == [s EXCEPT !.reqs[i] = DoneReq]

\* a slip: setActiveIndex(0) whatever the list holds
Shown_alwaysFirst(s, mapped) ==
    [s EXCEPT !.items = mapped, !.open = TRUE, !.activeIndex = 0]

\* setItems(mapped); setOpen(true); setActiveIndex(mapped.length ? 0 : -1)
Shown(s, mapped) ==
    [s EXCEPT !.items = mapped, !.open = TRUE,
              !.activeIndex = IF Len(mapped) # 0 THEN 0 ELSE -1]

\* setItems([]); setOpen(true); setActiveIndex(-1)
NoResults(s) == [s EXCEPT !.items = <<>>, !.open = TRUE, !.activeIndex = -1]

\* a slip: the response applied without looking at cancelled
onResponse_movie_unguarded(s, i, res) ==
    [Shown(Settle(s, i), Slice(res)) EXCEPT !.loading = FALSE]

\* movie: res.ok, data.results mapped; if (!cancelled) {...}; finally
onResponse_movie(s, i, res) ==
    LET mapped == Slice(res)
    IN IF s.reqs[i].cancelled THEN Settle(s, i)
       ELSE [Shown(Settle(s, i), mapped) EXCEPT !.loading = FALSE]

\* legacy: data.results mapped; if (!cancelled) {...}; finally
onResponse_legacy(s, i, res) ==
    LET mapped == Slice(res)
    IN IF s.reqs[i].cancelled THEN Settle(s, i)
       ELSE [Shown(Settle(s, i), mapped) EXCEPT !.loading = FALSE]

\* music: data.items.slice(0, 10); if (!cancelled) {...}; finally
onResponse_music(s, i, res) ==
    LET mapped == Slice(res)
    IN IF s.reqs[i].cancelled THEN Settle(s, i)
       ELSE [Shown(Settle(s, i), mapped) EXCEPT !.loading = FALSE]

\* books: data.results mapped; setItems, setOpen, setActiveIndex; finally
onResponse_books(s, i, res) ==
    [Shown(Settle(s, i), Slice(res)) EXCEPT !.loading = FALSE]

\* how a fetch can fail: the promise rejects, or it resolves with a
\* non-success status and the route's JSON error body; an aborted fetch of
\* books rejects with AbortError
FailKinds == {"network", "status"}

\* movie: !res.ok branch and catch, both under if (!cancelled); finally
\* a slip: the failure branch fetches the same query again
onFailure_movie_retry(s, i, kind) ==
    IF s.reqs[i].cancelled THEN Settle(s, i)
    ELSE issueFetch(NoResults(Settle(s, i)), s.reqs[i].q)

\* movie: if (!res.ok) {...; return} / catch {...}, both under
\* if (!cancelled); finally { if (!cancelled) setLoading(false) }
onFailure_movie(s, i, kind) ==
    IF s.reqs[i].cancelled THEN Settle(s, i)
    ELSE [NoResults(Settle(s, i)) EXCEPT !.loading = FALSE]

\* legacy: no res.ok test: an error body has no results array, so mapped
\* is []; a rejection goes to catch; both under if (!cancelled); finally
onFailure_legacy(s, i, kind) ==
    IF s.reqs[i].cancelled THEN Settle(s, i)
    ELSE IF kind = "status" THEN [Shown(Settle(s, i), Slice(<<>>)) EXCEPT !.loading = FALSE]
    ELSE [NoResults(Settle(s, i)) EXCEPT !.loading = FALSE]

\* music: try/finally without catch: an error body has no items array, so
\* mapped is []; a rejection skips to finally and leaves the async function
onFailure_music(s, i, kind) ==
    IF s.reqs[i].cancelled THEN Settle(s, i)
    ELSE IF kind = "status" THEN [Shown(Settle(s, i), Slice(<<>>)) EXCEPT !.loading = FALSE]
    ELSE [Settle(s, i) EXCEPT !.loading = FALSE]

\* music: whether the rejection leaves the async function unhandled
escapes_music(kind) == kind # "status"

\* books: if (!res.ok) throw; catch {...}; finally, none of it guarded
onFailure_books(s, i, kind) ==
    [NoResults(Settle(s, i)) EXCEPT !.loading = FALSE]

onResponse(s, i, res) ==
    CASE s.variant = "movie" -> onResponse_movie(s, i, res)
      [] s.variant = "legacy" -> onResponse_legacy(s, i, res)
      [] s.variant = "music" -> onResponse_music(s, i, res)
      [] OTHER -> onResponse_books(s, i, res)

onFailure(s, i, kind) ==
    CASE s.variant = "movie" -> onFailure_movie(s, i, kind)
      [] s.variant = "legacy" -> onFailure_legacy(s, i, kind)
      [] s.variant = "music" -> onFailure_music(s, i, kind)
      [] OTHER -> onFailure_books(s, i, kind)

\* ------------------------------------------------------------ script
\* Where the run stands in the script "type without pausing, let the
\* debounce fire, receive three candidates, ArrowDown, Enter"; "off" once
\* any other event has happened.
NextScen(sc, e) ==
    CASE e.kind = "change" /\ sc \in {"idle", "typing"} -> "typing"
      [] e.kind \in {"timer", "focus"} /\ sc = "idle" -> "idle"
      [] e.kind = "timer" /\ sc = "typing" -> "fired"
      [] e.kind = "response" /\ sc = "fired" /\ Len(e.res) = 3 -> "loaded"
      [] e.kind = "ArrowDown" /\ sc = "loaded" -> "down"
      [] e.kind = "Enter" /\ sc = "down" -> "enter"
      [] OTHER -> "off"

\* events that no user action causes: a timer firing, a fetch settling
AsyncKinds == {"timer", "response", "network", "status", "abort"}

\* --------------------------------------------------------- scrolling
\* {open && ... {!loading && items.length > 0 && (<ul ref={listRef} ...:
\* listRef.current is the <ul> of the last commit, or null
listRef(s) == s.open /\ ~s.loading /\ s.items # <<>>

\* list.children[i]?.scrollIntoView({ block: "nearest" })
scrollIntoView(s, i) ==
    IF listRef(s) /\ i >= 0 /\ i < Len(s.items) THEN <<i>> ELSE <<>>

\* movie, legacy: function scrollActiveIntoView(), called by onKeyDown right
\* after setActiveIndex(...): listRef.current and activeIndex are those of
\* the render the handler was created in, the update is not applied yet
scrollActiveIntoView(s) == scrollIntoView(s, s.activeIndex)

\* books: useEffect(() => { if (!listRef.current) return;
\*   if (activeIndex < 0) return; ...children[activeIndex]...scrollIntoView },
\*   [activeIndex]): runs after the commit that changed activeIndex
scrollEffect_books(prev, cur) ==
    IF cur.activeIndex # prev.activeIndex /\ cur.activeIndex >= 0
    THEN scrollIntoView(cur, cur.activeIndex)
    ELSE <<>>

\* the scrollIntoView calls of one event: s the state the handler saw, t the
\* state committed after it. music's onKeyDown calls none. In books an
\* effect that runs after the handler sets activeIndex to -1 only, where
\* the scroll effect returns early, so t stands for the handler's commit.
scrollCalls(s, e, t) ==
    CASE s.variant = "books" -> scrollEffect_books(s, t)
      [] s.variant \in {"movie", "legacy"}
           /\ e.kind \in {"ArrowDown", "ArrowUp"} /\ s.open /\ s.items # <<>>
         -> scrollActiveIntoView(s)
      [] OTHER -> <<>>

\* ------------------------------------------------------------ actions
Step(t, e) ==
    /\ Len(t.reqs) <= MaxRequests
    /\ Apply(t)
    /\ scrolled' = scrollCalls(St, e, t)
    /\ ev' = e
    /\ afterCommit' = (t.called # <<>> \/ (afterCommit /\ e.kind \in AsyncKinds))
    /\ afterFailure' = (e.kind \in FailKinds \/ (afterFailure /\ e.kind \in AsyncKinds))
    /\ scen' = NextScen(scen, e)
    /\ UNCHANGED <<slots, inputs, selected, pev, ex, gen>>

RemoveAt(seq, i) == SubSeq(seq, 1, i - 1) \o SubSeq(seq, i + 1, Len(seq))

\* the list is rendered: open, not loading, at least one item
ListShown == open /\ ~loading /\ items # <<>>

\* one search component, just mounted
Mount ==
    /\ variant \in Variants
    /\ query = <<>>
    /\ debounced = <<>>
    /\ open = FALSE
    /\ loading = FALSE
    /\ items = <<>>
    /\ activeIndex = -1
    /\ justSelected = FALSE
    /\ timers = IF variant = "books" THEN <<>> ELSE << <<>> >>
    /\ tLive = (variant # "books")
    /\ reqs = <<>>
    /\ effReq = 0
    /\ hasCleanup = FALSE
    /\ called = <<>>
    /\ issued = <<>>
    /\ picked = 0
    /\ ev = Event("mount", 0, <<>>)
    /\ afterCommit = FALSE
    /\ afterFailure = FALSE
    /\ scen = "idle"
    /\ scrolled = <<>>

\* a search component on its own: the panel around it is left out
Init ==
    /\ Mount
    /\ slots = <<>>
    /\ inputs = <<>>
    /\ selected = <<>>
    /\ pev = [slot |-> 0, kind |-> "mount"]
    /\ ex = <<>>
    /\ gen = <<>>

\* the user edits the input
Type(v) ==
    /\ v # query
    /\ LET s == St
           h == IF variant = "books" THEN handleInputChange(s, v) ELSE onChange(s, v)
       IN Step(Flush(s, h), Event("change", 0, <<>>))

\* a pending timeout fires
DebounceFire(i) ==
    LET s == St
        s0 == [s EXCEPT !.timers = RemoveAt(@, i),
                        !.tLive = IF i = Len(s.timers) THEN FALSE ELSE @]
        h == IF variant = "books" THEN timerBody_books(s0, timers[i])
             ELSE [s0 EXCEPT !.debounced = timers[i]]
    IN Step(Flush(s, h), Event("timer", 0, <<>>))

\* a fetch resolves with k results
Respond(i, k) ==
    /\ variant = "books" => ~reqs[i].cancelled
    /\ LET s == St
       IN Step(Flush(s, onResponse(s, i, Results(k))), Event("response", i, Results(k)))

\* a fetch fails
Fail(i, kind) ==
    /\ variant = "books" => (reqs[i].cancelled <=> kind = "abort")
    /\ variant # "books" => kind # "abort"
    /\ LET s == St
           e == Event(kind, i, <<>>)
       IN Step(Flush(s, onFailure(s, i, kind)),
               [e EXCEPT !.threw = variant = "music" /\ ~reqs[i].cancelled /\ escapes_music(kind)])

KeyDown(key) ==
    LET s == St
    IN Step(Flush(s, onKeyDown(s, key)), Event(key, 0, <<>>))

\* a click on the idx-th rendered candidate
Click(idx) ==
    /\ ListShown
    /\ LET s == St
       IN Step(Flush(s, handleSelect(s, items[idx])), Event("click", idx, <<>>))

\* onMouseEnter of the idx-th rendered candidate (music has no such handler)
MouseEnter(idx) ==
    /\ ListShown
    /\ variant # "music"
    /\ LET s == St
       IN Step(Flush(s, [s EXCEPT !.activeIndex = idx - 1]), Event("hover", idx, <<>>))

\* mousedown outside the component
OutsideMouseDown ==
    LET s == St
        h == IF variant = "books" THEN onDocClick(s) ELSE onDown(s)
    IN Step(Flush(s, h), Event("outside", 0, <<>>))

\* the input gains focus (books has no onFocus handler)
Focus ==
    /\ variant # "books"
    /\ LET s == St
           h == IF variant = "legacy" THEN onFocus_legacy(s) ELSE onFocus(s)
       IN Step(Flush(s, h), Event("focus", 0, <<>>))

Next ==
    \/ \E v \in Texts : Type(v)
    \/ \E i \in 1..Len(timers) : DebounceFire(i)
    \/ \E i \in Pending, k \in ResultSizes : Respond(i, k)
    \/ \E i \in Pending, kind \in FailKinds \cup {"abort"} : Fail(i, kind)
    \/ \E key \in Keys : KeyDown(key)
    \/ \E idx \in 1..Len(items) : Click(idx)
    \/ \E idx \in 1..Len(items) : MouseEnter(idx)
    \/ OutsideMouseDown
    \/ Focus

Spec == Init /\ [][Next]_vars

\* ---------------------------------------------------------- long lists
\* The same component, answered with result lists around the cap of ten.
SliceTexts == {<<>>, Incep}
SliceSizes == {9, 10, 11}

NextSlice ==
    \/ \E v \in SliceTexts : Type(v)
    \/ \E i \in 1..Len(timers) : DebounceFire(i)
    \/ \E i \in Pending, k \in SliceSizes : Respond(i, k)
    \/ \E key \in Keys : KeyDown(key)
    \/ \E idx \in 1..Len(items) : Click(idx)
    \/ Focus

SpecSlice == Init /\ [][NextSlice]_vars

\* -------------------------------------------------------------- panel
\* A panel (MovieGrid, the page, MusicGrid, BooksPanel) renders one search
\* component per slot and keeps the arrays inputs and selected (BooksPanel:
\* picked).  Each component instance has its own state and its own
\* listener for mousedown on the document.
NSlots == 2
MaxPanelRequests == 1

PanelTexts == {<<>>, Incep}
PanelSizes == {1}

single == <<variant, query, debounced, open, loading, items, activeIndex,
            justSelected, timers, tLive, reqs, effReq, hasCleanup, called,
            issued, picked, ev, afterCommit, afterFailure, scen, scrolled>>

\* the state of a component of copy v after mounting
MountSlot(v) ==
    [variant |-> v, query |-> <<>>, debounced |-> <<>>, open |-> FALSE,
     loading |-> FALSE, items |-> <<>>, activeIndex |-> -1,
     justSelected |-> FALSE,
     timers |-> IF v = "books" THEN <<>> ELSE << <<>> >>,
     tLive |-> (v # "books"), reqs |-> <<>>, effReq |-> 0,
     hasCleanup |-> FALSE, called |-> <<>>, issued |-> <<>>, picked |-> 0]

\* what slot i's component sees when it renders: its own state, and in
\* BooksPanel the prop value={inputs[idx]}
View(i) ==
    [slots[i] EXCEPT !.query = IF slots[i].variant = "books" THEN inputs[i] ELSE @,
                     !.picked = selected[i],
                     !.called = <<>>, !.issued = <<>>]

\* BooksPanel.handleInputChange(index, value):
\*   const next = [...inputs]; next[index] = value; setInputs(next);
\*   setPicked((prev) => { const n = [...prev]; n[index] = null; return n; })
handleInputChange_BooksPanel(P, index, value) ==
    [inputs |-> [P.inputs EXCEPT ![index] = value],
     selected |-> [P.selected EXCEPT ![index] = 0]]

\* a slip: the new array holds the value in every slot
onSelect_MovieGrid_fill(P, idx, movie) ==
    [inputs |-> [j \in 1..NSlots |-> stripYear(Title(movie))],
     selected |-> [P.selected EXCEPT ![idx] = movie]]

\* MovieGrid and the page, onSelect={(movie) => {...}}:
\*   nextInputs[idx] = pure; setInputs(nextInputs); next[idx] = { id: movie.id }
onSelect_MovieGrid(P, idx, movie) ==
    [inputs |-> [P.inputs EXCEPT ![idx] = stripYear(Title(movie))],
     selected |-> [P.selected EXCEPT ![idx] = movie]]

\* MusicGrid, onSelect={(a) => {...}}: nextInputs[idx] = a.title; n[idx] = { id: a.id }
onSelect_MusicGrid(P, idx, a) ==
    [inputs |-> [P.inputs EXCEPT ![idx] = Title(a)],
     selected |-> [P.selected EXCEPT ![idx] = a]]

\* BooksPanel, onSelect={(book) => {...}}: nextInputs[idx] = book.title; n[idx] = {...book}
onSelect_BooksPanel(P, idx, book) ==
    [inputs |-> [P.inputs EXCEPT ![idx] = Title(book)],
     selected |-> [P.selected EXCEPT ![idx] = book]]

\* the panel callbacks that the handlers of slot idx called while taking
\* its component from s to t: onSelect on a commit (in BooksPanel after
\* onChange(b.title)), onChange on an edit of the controlled input
Callbacks(idx, s, t) ==
    LET P == [inputs |-> inputs, selected |-> selected]
    IN IF t.called # <<>>
       THEN LET c == t.called[1]
            IN CASE s.variant = "books"
                      -> onSelect_BooksPanel(handleInputChange_BooksPanel(P, idx, Title(c)), idx, c)
                 [] s.variant = "music" -> onSelect_MusicGrid(P, idx, c)
                 [] OTHER -> onSelect_MovieGrid(P, idx, c)
       ELSE IF s.variant = "books" /\ t.query # s.query
       THEN handleInputChange_BooksPanel(P, idx, t.query)
       ELSE P

\* one event on slot i and the render that follows it
PanelStep(i, kind, s, t) ==
    LET P == Callbacks(i, s, t)
    IN /\ Len(t.reqs) <= MaxPanelRequests
       /\ slots' = [slots EXCEPT ![i] = t]
       /\ inputs' = P.inputs
       /\ selected' = P.selected
       /\ pev' = [slot |-> i, kind |-> kind]
       /\ UNCHANGED <<single, ex, gen>>

InitPanel ==
    /\ Mount
    /\ variant = "movie"
    /\ \E v \in Variants : slots = [i \in 1..NSlots |-> MountSlot(v)]
    /\ inputs = [i \in 1..NSlots |-> <<>>]
    /\ selected = [i \in 1..NSlots |-> 0]
    /\ pev = [slot |-> 0, kind |-> "mount"]
    /\ ex = <<>>
    /\ gen = <<>>

\* the user edits the input of slot i
PType(i, v) ==
    LET s == View(i)
        h == IF s.variant = "books" THEN handleInputChange(s, v) ELSE onChange(s, v)
    IN /\ v # s.query
       /\ PanelStep(i, "change", s, Flush(s, h))

\* a pending timeout of slot i fires
PDebounceFire(i, k) ==
    LET s == View(i)
        s0 == [s EXCEPT !.timers = RemoveAt(@, k),
                        !.tLive = IF k = Len(s.timers) THEN FALSE ELSE @]
        h == IF s.variant = "books" THEN timerBody_books(s0, s.timers[k])
             ELSE [s0 EXCEPT !.debounced = s.timers[k]]
    IN PanelStep(i, "timer", s, Flush(s, h))

\* a fetch of slot i resolves with n results
PRespond(i, r, n) ==
    LET s == View(i)
    IN /\ s.variant = "books" => ~s.reqs[r].cancelled
       /\ PanelStep(i, "response", s, Flush(s, onResponse(s, r, Results(n))))

\* a fetch of slot i fails
PFail(i, r, kind) ==
    LET s == View(i)
    IN /\ s.variant = "books" => (s.reqs[r].cancelled <=> kind = "abort")
       /\ s.variant # "books" => kind # "abort"
       /\ PanelStep(i, kind, s, Flush(s, onFailure(s, r, kind)))

\* a key goes down in the input of slot i
PKeyDown(i, key) ==
    LET s == View(i)
    IN PanelStep(i, key, s, Flush(s, onKeyDown(s, key)))

\* a click on the idx-th rendered candidate of slot i
PClick(i, idx) ==
    LET s == View(i)
    IN /\ s.open /\ ~s.loading
       /\ PanelStep(i, "click", s, Flush(s, handleSelect(s, s.items[idx])))

\* the input of slot i gains focus (books has no onFocus handler)
PFocus(i) ==
    LET s == View(i)
        h == IF s.variant = "legacy" THEN onFocus_legacy(s) ELSE onFocus(s)
    IN /\ s.variant # "books"
       /\ PanelStep(i, "focus", s, Flush(s, h))

\* mousedown on the document: inside the box of slot target, or outside
\* every box (target 0).  Each component's listener runs; the ones whose
\* box does not contain the target close their panel.
PMouseDown(target) ==
    LET hit(j) == LET s == View(j)
                      h == IF s.variant = "books" THEN onDocClick(s) ELSE onDown(s)
                  IN IF j = target THEN slots[j] ELSE Flush(s, h)
    IN /\ slots' = [j \in 1..NSlots |-> hit(j)]
       /\ pev' = [slot |-> target, kind |-> "mousedown"]
       /\ UNCHANGED <<inputs, selected>>
       /\ UNCHANGED <<single, ex, gen>>

PendingOf(i) == {r \in 1..Len(slots[i].reqs) : ~slots[i].reqs[r].done}

NextPanel ==
    \/ \E i \in 1..NSlots, v \in PanelTexts : PType(i, v)
    \/ \E i \in 1..NSlots : \E k \in 1..Len(slots[i].timers) : PDebounceFire(i, k)
    \/ \E i \in 1..NSlots : \E r \in PendingOf(i), n \in PanelSizes : PRespond(i, r, n)
    \/ \E i \in 1..NSlots : \E r \in PendingOf(i), kind \in FailKinds \cup {"abort"} : PFail(i, r, kind)
    \/ \E i \in 1..NSlots, key \in Keys : PKeyDown(i, key)
    \/ \E i \in 1..NSlots : \E idx \in 1..Len(slots[i].items) : PClick(i, idx)
    \/ \E i \in 1..NSlots : PFocus(i)
    \/ \E target \in 0..NSlots : PMouseDown(target)

SpecPanel == InitPanel /\ [][NextPanel]_vars

\* ------------------------------------------------------------- export
\* The export of the grid as an image: useExportImage.exportNodeAsImage
\* ("hook") and the page's own handleExport ("page").  One step is the
\* code between two awaits.
NImgs == 2
MaxTitleLen == 2

Impls == {"hook", "page"}
Roots == {"null", "zero", "ok"}
TRANSPARENT_PX == "data:image/png;base64"

others == <<single, slots, inputs, selected, pev, gen>>

Letters ==
    {"a", "b", "c", "d", "e", "f", "g", "h", "i", "j", "k", "l", "m",
     "n", "o", "p", "q", "r", "s", "t", "u", "v", "w", "x", "y", "z",
     "A", "B", "C", "D", "E", "F", "G", "H", "I", "J", "K", "L", "M",
     "N", "O", "P", "Q", "R", "S", "T", "U", "V", "W", "X", "Y", "Z"}

\* the characters the class [^\w\-] does not match
Safe(c) == c \in Letters \cup Digits \cup {"_", "-"}

RECURSIVE dropUnsafe(_)
dropUnsafe(t) == IF t # <<>> /\ ~Safe(Head(t)) THEN dropUnsafe(Tail(t)) ELSE t

\* .replace(/[^\w\-]+/g, "_")
RECURSIVE replaceUnsafe(_)
replaceUnsafe(t) ==
    IF t = <<>> THEN <<>>
    ELSE IF Safe(Head(t)) THEN <<Head(t)>> \o replaceUnsafe(Tail(t))
    ELSE <<"_">> \o replaceUnsafe(dropUnsafe(Tail(t)))

movie_grid == <<"m", "o", "v", "i", "e", "-", "g", "r", "i", "d">>

\* (typeof title === "string" ? title : "movie-grid")
\*     .trim().replace(/[^\w\-]+/g, "_") || "movie-grid"
fileSafe(title) ==
    LET r == replaceUnsafe(Trim(title))
    IN IF r = <<>> THEN movie_grid ELSE r

Favorites ==
    <<"2", "0", "2", "4", ":", " ", "M", "y", " ",
      "F", "a", "v", "o", "r", "i", "t", "e", "s", "!", "!">>

TitleChars == {"a", " ", "!", "_", "-"}

\* what the user may have typed as the grid's title
Titles ==
    UNION {[1..n -> TitleChars] : n \in 0..MaxTitleLen}
        \cup {Favorites, <<" ", "a", " ", "!", "a", " ">>}

\* the titles of the exports whose steps are followed in full
ExportTitles == {<<>>, <<"a", "!">>, Favorites}

\* an <img> under the root, as the page rendered it; complete is
\* HTMLImageElement.complete; st and normal are about the export: where the
\* image's readiness promise stands, and whether every image had both of
\* its attributes when that promise was made
Imgs ==
    [crossOrigin : {"", "use-credentials"}, referrerPolicy : {"", "origin"},
     src : {"poster"}, complete : BOOLEAN, st : {"idle"}, normal : {FALSE}]

\* if (!img.crossOrigin) img.crossOrigin = "anonymous";
\* if (!img.referrerPolicy) img.referrerPolicy = "no-referrer";
normalize(img) ==
    [img EXCEPT !.crossOrigin = IF @ = "" THEN "anonymous" ELSE @,
                !.referrerPolicy = IF @ = "" THEN "no-referrer" ELSE @]

\* (img) => img.decode ? img.decode().catch(...) : new Promise(...), applied
\* to the k-th image: with decode() the promise is pending; without it the
\* promise is resolved at once when img.complete, and waits for onload /
\* onerror otherwise
wait(x, imgs, k) ==
    [imgs[k] EXCEPT
        !.st = IF x.decode \/ ~imgs[k].complete THEN "pending" ELSE "settled",
        !.normal = \A j \in 1..NImgs :
                      imgs[j].crossOrigin # "" /\ imgs[j].referrerPolicy # ""]

\* a slip: one loop that normalizes an image and waits for it
readiness_eachInTurn(x, imgs) ==
    [k \in 1..NImgs |->
        wait(x, [j \in 1..NImgs |-> IF j <= k THEN normalize(imgs[j]) ELSE imgs[j]], k)]

\* imgs.forEach(normalize); await Promise.all(imgs.map(wait))
readiness(x, imgs) ==
    LET n == [k \in 1..NImgs |-> normalize(imgs[k])]
    IN [k \in 1..NImgs |-> wait(x, n, k)]

\* what one call has done so far is forgotten when the next one starts
fresh(x, root, title) ==
    [x EXCEPT !.root = root, !.title = title, !.alerts = <<>>, !.raster = <<>>,
              !.downloads = <<>>, !.escaped = FALSE, !.last = "click"]

\* a slip: setBusy(true) before the size test
exportNodeAsImage_busyFirst(x, root, title) ==
    LET y == fresh(x, root, title)
    IN CASE root = "null" -> y
         [] root = "zero" -> [y EXCEPT !.busy = TRUE, !.alerts = Append(@, "zero-size")]
         [] OTHER -> [y EXCEPT !.busy = TRUE, !.pc = "waiting", !.running = @ + 1,
                        !.imgs = readiness(x, @)]

\* exportNodeAsImage(node, title) / handleExport(), up to the first await:
\*   if (!node) return;
\*   if (box.width === 0 || box.height === 0) { alert(...); return; }
\*   setBusy(true); imgs.forEach(normalize); await Promise.all(imgs.map(decode))
exportNodeAsImage(x, root, title) ==
    LET y == fresh(x, root, title)
    IN CASE root = "null" -> y
         [] root = "zero" -> [y EXCEPT !.alerts = Append(@, "zero-size")]
         [] OTHER -> [y EXCEPT !.busy = TRUE, !.pc = "waiting", !.running = @ + 1,
                        !.imgs = readiness(x, @)]

\* a slip: a failed decode is let through
decodeSettled_rethrow(x, k, ok) ==
    IF ok THEN [x EXCEPT !.imgs[k].st = "settled", !.imgs[k].complete = TRUE, !.last = "img"]
    ELSE [x EXCEPT !.imgs[k].st = "settled", !.busy = FALSE, !.pc = "idle",
                   !.running = @ - 1, !.escaped = TRUE, !.last = "img"]

\* img.decode() settles: .catch(() => { img.src = TRANSPARENT_PX; })
\* img.onload = () => res(); img.onerror = () => { img.src = TRANSPARENT_PX; res(); }
decodeSettled(x, k, ok) ==
    [x EXCEPT !.imgs[k].st = "settled",
              !.imgs[k].complete = TRUE,
              !.imgs[k].src = IF ok THEN @ ELSE TRANSPARENT_PX,
              !.last = "img"]

\* a slip: the finally block is missing
thrown_noFinally(x) ==
    IF x.impl = "hook"
    THEN [x EXCEPT !.pc = "idle", !.running = @ - 1, !.escaped = TRUE]
    ELSE [x EXCEPT !.pc = "idle", !.running = @ - 1, !.alerts = Append(@, "failed")]

\* an await inside try rejects.  hook: try { ... } finally { setBusy(false) },
\* the rejection leaves the function.  page: catch (e) { console.error; alert }
thrown(x) ==
    IF x.impl = "hook"
    THEN [x EXCEPT !.busy = FALSE, !.pc = "idle", !.running = @ - 1, !.escaped = TRUE]
    ELSE [x EXCEPT !.busy = FALSE, !.pc = "idle", !.running = @ - 1,
                   !.alerts = Append(@, "failed")]

\* const htmlToImage = await import("html-to-image"), then toPng is called
importDone(x, ok) ==
    IF ok THEN [x EXCEPT !.pc = "png", !.raster = Append(@, "png"), !.last = "import"]
    ELSE [thrown(x) EXCEPT !.last = "import"]

\* a.href = dataUrl; a.download = `${fileSafe}.png`; a.click(); finally
\* enc is the encoding of dataUrl
download(x, enc) ==
    [x EXCEPT !.downloads = Append(@, [base |-> fileSafe(x.title), ext |-> ".png", enc |-> enc]),
              !.busy = FALSE, !.pc = "idle", !.running = @ - 1]

\* a slip: the lossy encoding is tried a second time
toPngDone_twice(x, ok) ==
    IF ok THEN [download(x, "png") EXCEPT !.last = "png"]
    ELSE [x EXCEPT !.pc = "jpeg", !.raster = @ \o <<"jpeg", "jpeg">>, !.last = "png"]

\* await htmlToImage.toPng(...) settles; catch (err) { ... toJpeg(...) }
toPngDone(x, ok) ==
    IF ok THEN [download(x, "png") EXCEPT !.last = "png"]
    ELSE [x EXCEPT !.pc = "jpeg", !.raster = Append(@, "jpeg"), !.last = "png"]

\* await htmlToImage.toJpeg(...) settles
toJpegDone(x, ok) ==
    IF ok THEN [download(x, "jpeg") EXCEPT !.last = "jpeg"]
    ELSE [thrown(x) EXCEPT !.last = "jpeg"]

\* the export as the grid is mounted: const [busy, setBusy] = useState(false)
ExMount(impl, dec, im) ==
    [impl |-> impl, decode |-> dec, root |-> "none", title |-> <<>>,
     busy |-> FALSE, pc |-> "idle", running |-> 0,
     imgs |-> im, alerts |-> <<>>, raster |-> <<>>,
     downloads |-> <<>>, escaped |-> FALSE, last |-> "mount"]

InitExport ==
    /\ Mount
    /\ variant = "movie"
    /\ slots = <<>>
    /\ inputs = <<>>
    /\ selected = <<>>
    /\ pev = [slot |-> 0, kind |-> "mount"]
    /\ gen = <<>>
    /\ \E impl \in Impls, dec \in BOOLEAN, im \in [1..NImgs -> Imgs] :
          ex = ExMount(impl, dec, im)

\* a slip: the button is not disabled
ExportClick_enabled(root, title) ==
    /\ ex' = exportNodeAsImage(ex, root, title)
    /\ UNCHANGED others

\* the Export button, disabled={busy}
ExportClick(root, title) ==
    /\ ~ex.busy
    /\ ex' = exportNodeAsImage(ex, root, title)
    /\ UNCHANGED others

\* decode() settles, or the load / error event of an image arrives
ImgSettles(k, ok) ==
    /\ ex.pc = "waiting" /\ ex.imgs[k].st = "pending"
    /\ ex' = decodeSettled(ex, k, ok)
    /\ UNCHANGED others

\* a slip: Promise.race in place of Promise.all
ImportSettles_race(ok) ==
    /\ ex.pc = "waiting" /\ \E k \in 1..NImgs : ex.imgs[k].st = "settled"
    /\ ex' = importDone(ex, ok)
    /\ UNCHANGED others

\* Promise.all has resolved and the dynamic import settles
ImportSettles(ok) ==
    /\ ex.pc = "waiting" /\ \A k \in 1..NImgs : ex.imgs[k].st = "settled"
    /\ ex' = importDone(ex, ok)
    /\ UNCHANGED others

PngSettles(ok) ==
    /\ ex.pc = "png"
    /\ ex' = toPngDone(ex, ok)
    /\ UNCHANGED others

JpegSettles(ok) ==
    /\ ex.pc = "jpeg"
    /\ ex' = toJpegDone(ex, ok)
    /\ UNCHANGED others

NextExport ==
    \/ \E root \in Roots, title \in ExportTitles : ExportClick(root, title)
    \/ \E k \in 1..NImgs, ok \in BOOLEAN : ImgSettles(k, ok)
    \/ \E ok \in BOOLEAN : ImportSettles(ok)
    \/ \E ok \in BOOLEAN : PngSettles(ok)
    \/ \E ok \in BOOLEAN : JpegSettles(ok)

SpecExport == InitExport /\ [][NextExport]_vars

\* The file name: exports of a root with plain images in a browser with
\* decode(), under every title of Titles.
InitName ==
    /\ InitExport
    /\ ex.decode
    /\ \A k \in 1..NImgs :
          ex.imgs[k] = [crossOrigin |-> "", referrerPolicy |-> "", src |-> "poster",
                        complete |-> TRUE, st |-> "idle", normal |-> FALSE]

NextName ==
    \/ \E title \in Titles : ExportClick("ok", title)
    \/ \E k \in 1..NImgs : ImgSettles(k, TRUE)
    \/ ImportSettles(TRUE)
    \/ \E ok \in BOOLEAN : PngSettles(ok)
    \/ JpegSettles(TRUE)

SpecName == InitName /\ [][NextName]_vars

\* ----------------------------------------------------------- generate
\* The Generate button of a grid: handleGenerate of Home ("page": page.tsx
\* and its two other copies), of MovieGrid and of BooksPanel.  A card is 0
\* (the card the grid was mounted with) or the id of the data it was made
\* of.  One step is the code between two awaits.
MaxRuns == 2

Panels == {"page", "MovieGrid", "BooksPanel"}
Data == {1, 2}
Failures == {"throws", "status", "nodata"}
\* how a lookup ends: the data's id, or the way it failed
Outcomes == [kind : {"ok"}, id : Data] \cup [kind : Failures, id : {0}]
GenTexts == {<<>>, Incep}
GenPicks == {0, 3}

\* the slot's lookup is a fetch: page, MovieGrid: sel && sel.id, else q;
\* BooksPanel: no pick with a title, and q
fetches(panel, run, i) ==
    IF panel = "BooksPanel"
    THEN run.selected[i] = 0 /\ Trim(run.inputs[i]) # <<>>
    ELSE run.selected[i] # 0 \/ Trim(run.inputs[i]) # <<>>

\* for (let i = 0; i < inputs.length; i++) { ... }, from slot i up to the
\* next await: BooksPanel copies a pick into next[i]; a slot with neither a
\* selection nor a text is passed over
RECURSIVE loop(_, _, _)
loop(panel, run, i) ==
    IF i > NSlots THEN [run EXCEPT !.i = i]
    ELSE IF panel = "BooksPanel" /\ run.selected[i] # 0
    THEN loop(panel, [run EXCEPT !.next[i] = run.selected[i], !.res[i] = "picked"], i + 1)
    ELSE IF fetches(panel, run, i) THEN [run EXCEPT !.i = i]
    ELSE loop(panel, [run EXCEPT !.res[i] = "skipped"], i + 1)

\* the awaited fetch of slot run.i settles: data is written into next[i];
\* a rejection is caught inside the loop, !res.ok and no data go on
lookupDone(run, o) ==
    [run EXCEPT !.next[run.i] = IF o.kind = "ok" THEN o.id ELSE @,
                !.res[run.i] = o.kind]

\* the call goes on after its await
resume(panel, run, o) == loop(panel, lookupDone(run, o), run.i + 1)

\* setMovies(next) / setBooks(next) at the end of the call
setMovies(G, run) ==
    [G EXCEPT !.cards = run.next,
              !.last = [kind |-> "done", res |-> run.res, movies |-> run.movies]]

\* handleGenerate(), up to its first await: const next = [...movies], with
\* movies, inputs and selected those of the render the button was clicked in
handleGenerate(G, inp, sel) ==
    LET r == loop(G.panel,
                  [movies |-> G.cards, next |-> G.cards, inputs |-> inp,
                   selected |-> sel, i |-> 1,
                   res |-> [j \in 1..NSlots |-> "none"]], 1)
    IN IF r.i > NSlots THEN setMovies(G, r)
       ELSE [G EXCEPT !.runs = Append(@, r),
                      !.last = [kind |-> "click", res |-> <<>>, movies |-> <<>>]]

\* the fetch awaited by the k-th call in progress settles
lookupSettled(G, k, o) ==
    LET r == resume(G.panel, G.runs[k], o)
    IN IF r.i > NSlots THEN [setMovies(G, r) EXCEPT !.runs = RemoveAt(@, k)]
       ELSE [G EXCEPT !.runs[k] = r,
                      !.last = [kind |-> "await", res |-> <<>>, movies |-> <<>>]]

\* Home: setBusy(true) ... finally { setBusy(false) }, the state the export
\* uses; MovieGrid and BooksPanel do not touch busy
busyOf(G, x) == IF G.panel = "page" THEN [x EXCEPT !.busy = G.runs # <<>>] ELSE x

GenMount(panel) ==
    [panel |-> panel, cards |-> [j \in 1..NSlots |-> 0], runs |-> <<>>,
     last |-> [kind |-> "mount", res |-> <<>>, movies |-> <<>>]]

PlainImg ==
    [crossOrigin |-> "", referrerPolicy |-> "", src |-> "poster",
     complete |-> TRUE, st |-> "idle", normal |-> FALSE]

InitGenerate ==
    /\ Mount
    /\ variant = "movie"
    /\ slots = <<>>
    /\ pev = [slot |-> 0, kind |-> "mount"]
    /\ inputs \in [1..NSlots -> GenTexts]
    /\ selected \in [1..NSlots -> GenPicks]
    /\ \E panel \in Panels :
          /\ gen = GenMount(panel)
          /\ ex = ExMount(IF panel = "page" THEN "page" ELSE "hook", TRUE,
                          [k \in 1..NImgs |-> PlainImg])

\* the Generate button; Home: disabled={busy}
GenerateClick ==
    /\ gen.panel = "page" => ~ex.busy
    /\ Len(gen.runs) < MaxRuns
    /\ gen' = handleGenerate(gen, inputs, selected)
    /\ ex' = busyOf(gen', ex)
    /\ UNCHANGED <<single, slots, inputs, selected, pev>>

LookupSettles(k, o) ==
    /\ k \in 1..Len(gen.runs)
    /\ gen' = lookupSettled(gen, k, o)
    /\ ex' = busyOf(gen', ex)
    /\ UNCHANGED <<single, slots, inputs, selected, pev>>

NextGenerate ==
    \/ GenerateClick
    \/ \E k \in 1..MaxRuns, o \in Outcomes : LookupSettles(k, o)

SpecGenerate == InitGenerate /\ [][NextGenerate]_vars

\* Generate and Export of one grid together, the first slot holding a text
InitBusy ==
    /\ Mount
    /\ variant = "movie"
    /\ slots = <<>>
    /\ pev = [slot |-> 0, kind |-> "mount"]
    /\ inputs = [j \in 1..NSlots |-> IF j = 1 THEN Incep ELSE <<>>]
    /\ selected = [j \in 1..NSlots |-> 0]
    /\ \E panel \in Panels, dec \in BOOLEAN :
          /\ gen = GenMount(panel)
          /\ ex = ExMount(IF panel = "page" THEN "page" ELSE "hook", dec,
                          [k \in 1..NImgs |-> PlainImg])

NextBusy == NextExport \/ NextGenerate

SpecBusy == InitBusy /\ [][NextBusy]_vars

\* ------------------------------------------------------------- claims
\* the search state a response may write
SearchState == <<items, open, activeIndex, loading>>

\* request i settles in this step
Settles(i) == i \in Pending /\ reqs'[i].done

\* the copies that guard their writes with the closure's cancelled flag
FlagCopies == {"movie", "legacy", "music"}

\* C1: in the copies that keep a cancelled flag (movie, legacy, music), the
\* response or failure of a request that is no longer the most recently
\* issued one changes none of items, open, activeIndex, loading, whenever
\* it arrives; only the most recently issued request writes them.
C1_StaleResponseDiscarded ==
    [][\A i \in 1..Len(reqs) :
          (variant \in FlagCopies /\ Settles(i) /\ i < Len(reqs))
              => UNCHANGED SearchState]_vars

\* C1 witness: the earlier request's response (one candidate) arrives after
\* the later request's three candidates were applied, and they still show.
C1_Witness ==
    /\ variant = "movie"
    /\ ev.kind = "response" /\ ev.arg = 1 /\ Len(ev.res) = 1
    /\ Len(reqs) = 2 /\ reqs[2].done
    /\ Len(items) = 3 /\ open /\ ~loading

\* C2: keystrokes that follow each other faster than the debounce interval,
\* from the initial state, issue no request while they last; once the timer
\* fires on a final text of trimmed length >= minChars, exactly one request
\* has been issued, for that text.
C2_OneRequestPerBurst ==
    /\ scen = "typing" => reqs = <<>>
    /\ (scen = "fired" /\ Len(Trim(query)) >= MinChars)
          => (Len(reqs) = 1 /\ reqs[1].q = Trim(query) /\ issued = <<Trim(query)>>)

\* C3: type "Incep", the debounce fires: one request, for "Incep"; three
\* candidates arrive: panel open, activeIndex 0; ArrowDown: activeIndex 1;
\* Enter: the callback receives candidate[1], the panel closes, the input
\* holds candidate[1]'s title.
C3_EndToEnd ==
    /\ []((scen = "fired" /\ query = Incep) => (Len(reqs) = 1 /\ reqs[1].q = Incep))
    /\ [](scen = "loaded" => (open /\ activeIndex = 0 /\ Len(items) = 3))
    /\ [](scen = "down" => activeIndex = 1)
    /\ [][(scen = "down" /\ scen' = "enter")
             => (called' = <<items[2]>> /\ ~open' /\ query' = Title(items[2]))]_vars

\* C4: in the gated copies (movie, music), after a commit and until the
\* next user event, the panel stays closed and holds no candidates: neither
\* the debounce of the rewritten text nor a late response reopens it.
C4_CommitDoesNotReopen ==
    (variant \in {"movie", "music"} /\ afterCommit) => (~open /\ items = <<>>)

\* C4 witness: after the commit of the third candidate (a title the user
\* never typed) the debounce timer of the rewritten text has fired, so the
\* debounced text has caught up with the input, and the panel is closed.
C4_Witness ==
    /\ variant = "movie" /\ afterCommit
    /\ ev.kind = "timer" /\ debounced = Title(3) /\ query = Title(3)
    /\ ~open

\* C5: a commit hands the candidate to the callback once and leaves the
\* input at the title without a trailing "(YYYY)", the panel closed and the
\* candidate list empty.
C5_CommitResult ==
    called # <<>> =>
        /\ Len(called) = 1
        /\ query = stripYear(Title(called[1]))
        /\ ~open
        /\ items = <<>>

\* C6: with the panel open and n >= 1 candidates, ArrowDown takes
\* activeIndex i to (i + 1) mod n and ArrowUp to (i - 1) mod n; with no
\* candidates or the panel closed both keys change nothing; in every case
\* nothing but activeIndex changes.
C6_ArrowKeysWrap ==
    [][LET n == Len(items)
       IN (ev'.kind \in {"ArrowDown", "ArrowUp"}) =>
            /\ UNCHANGED <<query, debounced, open, loading, items, justSelected,
                           timers, tLive, reqs, effReq, hasCleanup, picked>>
            /\ called' = <<>> /\ issued' = <<>>
            /\ IF open /\ n >= 1
               THEN activeIndex' = IF ev'.kind = "ArrowDown"
                                   THEN (activeIndex + 1) % n
                                   ELSE (activeIndex - 1) % n
               ELSE activeIndex' = activeIndex]_vars

\* C6 witness: ArrowUp has just wrapped from the first of three candidates
\* to the last.
C6_Witness ==
    /\ ev.kind = "ArrowUp" /\ open /\ Len(items) = 3 /\ activeIndex = 2

\* C7: whenever the panel is open, activeIndex is -1 or an index of items.
C7_ActiveIndexValid ==
    open => (activeIndex = -1 \/ (0 <= activeIndex /\ activeIndex < Len(items)))

\* a text whose trimmed length is below minChars
Short(t) == Len(Trim(t)) < MinChars

\* C8: when the debounced text changes to one of trimmed length below
\* minChars, candidates are cleared, the panel is closed and no request is
\* issued; no request is ever issued for a query shorter than minChars.
C8_MinCharsGate ==
    /\ [][(debounced' # debounced /\ Short(debounced'))
            => (items' = <<>> /\ ~open' /\ issued' = <<>>)]_vars
    /\ [](\A k \in 1..Len(issued) : ~Short(issued[k]))

\* C9: when the response of the most recently issued, not cancelled request
\* arrives, items is the response's first ten results, the panel is open,
\* activeIndex is 0 if there are items and -1 if not, loading is false.
C9_ResponseApplied ==
    [][\A i \in 1..Len(reqs) :
          (Settles(i) /\ ev'.kind = "response" /\ i = Len(reqs) /\ ~reqs[i].cancelled)
              => /\ items' = Slice(ev'.res)
                 /\ open'
                 /\ activeIndex' = (IF Len(items') > 0 THEN 0 ELSE -1)
                 /\ ~loading']_vars

\* C9 witness: a response with three results and one with none have been
\* applied while the panel showed something else.
C9_Witness ==
    /\ ev.kind = "response" /\ ev.res = <<>>
    /\ items = <<>> /\ open /\ activeIndex = -1 /\ ~loading
    /\ Len(reqs) = 2 /\ ev.arg = 2

\* C10: when the most recently issued, not cancelled request fails (the
\* fetch rejects, or answers with a non-success status), items is empty,
\* the panel is open, activeIndex is -1, loading is false, and the error
\* stays inside the component.
C10_FailureShowsNoResults ==
    [][\A i \in 1..Len(reqs) :
          (Settles(i) /\ ev'.kind \in FailKinds /\ i = Len(reqs) /\ ~reqs[i].cancelled)
              => /\ items' = <<>>
                 /\ open'
                 /\ activeIndex' = -1
                 /\ ~loading'
                 /\ ~ev'.threw]_vars

\* C11: in the books copy, the completion of a request that was aborted (by
\* the effect cleanup on a query change, or by a newer timer firing) changes
\* none of items, open, activeIndex, loading.
C11_AbortedRequestSilent ==
    [][\A i \in 1..Len(reqs) :
          (variant = "books" /\ Settles(i) /\ reqs[i].cancelled)
              => UNCHANGED SearchState]_vars

\* C12 as stated: from the failure of a request until the next user event
\* (keystroke, focus, key, click, outside mousedown) no request is issued.
C12_NoRequestAfterFailure ==
    afterFailure => issued = <<>>

\* C12: from the failure of a request until the next user event, the only
\* step that issues a request is the firing of a debounce timer that an
\* earlier keystroke scheduled; the failure itself and every later
\* completion issue none, so a failed request is never retried.
C12_NoRetryAfterFailure ==
    (afterFailure /\ ev.kind # "timer") => issued = <<>>

\* C12 witness: the latest request has failed with nothing else pending,
\* the empty state shows, and no request was issued.
C12_Witness ==
    /\ ev.kind = "network" /\ afterFailure
    /\ Len(reqs) = 1 /\ Pending = {} /\ timers = <<>>
    /\ open /\ items = <<>> /\ ~loading /\ issued = <<>>

\* what the component holds, apart from the bookkeeping of the last event
Component == <<query, debounced, open, loading, items, activeIndex,
               justSelected, timers, tLive, reqs, effReq, hasCleanup, picked>>

\* C13: a click on a candidate, or Enter with the panel open and
\* activeIndex inside the list, hands the callback exactly one candidate in
\* that same step: the clicked one, or the one at activeIndex; Enter with
\* the panel open and activeIndex -1 or outside the list calls nothing and
\* changes nothing; no other event calls the callback.
C13_CommitCallsOnce ==
    [][/\ ev'.kind = "click" => called' = <<items[ev'.arg]>>
       /\ (ev'.kind = "Enter" /\ open) =>
             IF activeIndex >= 0 /\ activeIndex < Len(items)
             THEN called' = <<items[activeIndex + 1]>>
             ELSE called' = <<>> /\ UNCHANGED Component
       /\ ev'.kind \notin {"click", "Enter"} => called' = <<>>]_vars

\* C13 witness: Enter has committed the second of three candidates.
C13_Witness ==
    /\ ev.kind = "Enter" /\ called = <<2>> /\ ~open

\* C13 witness: Enter on an open panel without candidates did nothing.
C13_WitnessNoop ==
    /\ ev.kind = "Enter" /\ open /\ items = <<>> /\ called = <<>>

\* C14: Escape with the panel open, and a mousedown outside the component,
\* each leave the panel closed and the input text as it was.
C14_EscapeAndOutsideClose ==
    [][((ev'.kind = "Escape" /\ open) \/ ev'.kind = "outside")
          => (~open' /\ query' = query)]_vars

\* C15: at most one debounce timer is pending, and it is the one the
\* latest change of the text scheduled: it carries the current text (in
\* the books copy, the current trimmed text).
C15_OneDebounceTimer ==
    /\ Len(timers) <= 1
    /\ timers # <<>> =>
          timers[1] = (IF variant = "books" THEN Trim(query) ELSE query)

\* C15 witness: a keystroke has replaced the timer that was pending; one
\* timer is pending, for the text just typed.
C15_Witness ==
    /\ ev.kind = "change" /\ scen = "typing"
    /\ query = Incep /\ timers = <<Incep>> /\ debounced = <<>>
    /\ variant = "movie"

\* C16: a non-null Selection of the slot is the candidate whose title (as
\* it is, or without its trailing year) is the slot's input text, and a
\* manual edit of the input text leaves the Selection null.
C16_SelectionMatchesText ==
    /\ [](picked # 0 => query \in {Title(picked), stripYear(Title(picked))})
    /\ [][ev'.kind = "change" => picked' = 0]_vars

\* what slot j shows: its input text, its Selection and its search state
SlotFace(j) ==
    <<IF slots[j].variant = "books" THEN inputs[j] ELSE slots[j].query,
      inputs[j], selected[j],
      slots[j].items, slots[j].open, slots[j].activeIndex, slots[j].loading>>

C18_AtMostTenInOrder ==
    /\ [](Len(items) <= 10)
    /\ [][\A i \in 1..Len(reqs) :
            (Settles(i) /\ ev'.kind = "response" /\ i = Len(reqs) /\ ~reqs[i].cancelled)
               => LET k == Len(ev'.res)
                      m == IF k < 10 THEN k ELSE 10
                  IN /\ Len(items') = m
                     /\ \A n \in 1..m : items'[n] = ev'.res[n]]_vars

\* C18 witness: a response with eleven results has been applied and ten
\* candidates show.
C18_Witness ==
    /\ ev.kind = "response" /\ Len(ev.res) = 11
    /\ Len(items) = 10 /\ items[10] = 10 /\ open

\* C19: an export of a root of zero width or height shows the zero-size
\* alert and does nothing else: busy stays false, no image is modified,
\* nothing is rasterized, nothing is downloaded.
C19_ZeroSizeRoot ==
    /\ [][(ex'.last = "click" /\ ex'.root = "zero")
            => (ex'.alerts = <<"zero-size">> /\ ex'.imgs = ex.imgs /\ ~ex'.busy)]_vars
    /\ [](ex.root = "zero" =>
            (~ex.busy /\ ex.pc = "idle" /\ ex.raster = <<>> /\ ex.downloads = <<>>))

\* C19 witness: after an export that went through and changed the images,
\* an export of a zero-size root has raised the alert.
C19_Witness ==
    /\ ex.last = "click" /\ ex.root = "zero" /\ ex.alerts = <<"zero-size">>
    /\ \E k \in 1..NImgs : ex.imgs[k].st = "settled"

\* C20: an export of an absent root shows a message to the user, produces
\* no file and starts no asynchronous work.
C20_NullRootFailsFast ==
    ex.root = "null" =>
        (ex.alerts # <<>> /\ ex.downloads = <<>> /\ ex.raster = <<>>
            /\ ex.pc = "idle" /\ ~ex.busy)

\* C21: the busy flag is true exactly while an export is between its
\* normalization pass and its exit, and it is false after every way out:
\* a download from the lossless encoding, a download from the fallback,
\* both encodings failing, and the rasterizer module failing to load.
C21_BusyUntilExit ==
    /\ (ex.busy <=> ex.pc # "idle")
    /\ (ex.downloads # <<>> => ~ex.busy)
    /\ ((ex.last \in {"import", "jpeg"} /\ (ex.escaped \/ ex.alerts # <<>>)) => ~ex.busy)

\* C21 witness: both encodings have failed in the hook, the rejection has
\* left the call, and busy is false again.
C21_Witness ==
    /\ ex.impl = "hook" /\ ex.last = "jpeg" /\ ex.escaped
    /\ ex.raster = <<"png", "jpeg">> /\ ~ex.busy

\* C22: when the lossless and the lossy rasterization have both failed,
\* the user has been shown an alert, nothing has been downloaded and the
\* failure has not left the export as an unhandled rejection.
C22_BothFailAlert ==
    (ex.last = "jpeg" /\ ex.raster = <<"png", "jpeg">> /\ ex.pc = "idle" /\ ex.downloads = <<>>)
        => (ex.alerts # <<>> /\ ~ex.escaped)

\* C23: one export makes at most two rasterization attempts, the lossless
\* one first; the lossy one is made exactly in the step in which the
\* lossless one fails, and only once; and the step in which either attempt
\* succeeds produces a download.
C23_FallbackOnce ==
    /\ [](ex.raster \in {<<>>, <<"png">>, <<"png", "jpeg">>})
    /\ [][("jpeg" \in {ex'.raster[i] : i \in 1..Len(ex'.raster)}
                /\ ex'.raster # ex.raster) <=> PngSettles(FALSE)]_vars
    /\ [][(PngSettles(TRUE) \/ JpegSettles(TRUE))
            => (ex.downloads = <<>> /\ Len(ex'.downloads) = 1)]_vars

\* C23 witness: the lossless attempt failed, the lossy one succeeded and
\* the file was downloaded.
C23_Witness ==
    /\ ex.raster = <<"png", "jpeg">> /\ ex.last = "jpeg"
    /\ Len(ex.downloads) = 1 /\ ex.downloads[1].enc = "jpeg"

\* C24: the extension of a downloaded file is that of the encoding of its
\* content: .png after the lossless rasterization, a JPEG extension when
\* the content came from the lossy fallback.
C24_ExtensionMatchesEncoding ==
    \A i \in 1..Len(ex.downloads) :
        /\ ex.downloads[i].enc = "png" => ex.downloads[i].ext = ".png"
        /\ ex.downloads[i].enc = "jpeg" => ex.downloads[i].ext \in {".jpg", ".jpeg"}

\* t with every maximal run of characters outside [A-Za-z0-9_-] replaced by
\* one underscore, said position by position: a character of the class is
\* kept, a character outside it gives "_" when it starts a run and nothing
\* otherwise.
RunsReplaced(t) ==
    LET starts(i) == Safe(t[i]) \/ i = 1 \/ Safe(t[i - 1])
        at == SelectSeq([i \in 1..Len(t) |-> i], starts)
    IN [j \in 1..Len(at) |-> IF Safe(t[at[j]]) THEN t[at[j]] ELSE "_"]

Favorites_expected ==
    <<"2", "0", "2", "4", "_", "M", "y", "_",
      "F", "a", "v", "o", "r", "i", "t", "e", "s">>

\* C25: the base name of a downloaded file is the title, trimmed, with
\* every maximal run of characters outside [A-Za-z0-9_-] replaced by one
\* underscore (when that is not empty), and the title
\* "2024: My Favorites!!" gives the base name "2024_My_Favorites".
C25_BaseName ==
    \A i \in 1..Len(ex.downloads) :
        /\ RunsReplaced(Trim(ex.title)) # <<>>
              => ex.downloads[i].base = RunsReplaced(Trim(ex.title))
        /\ ex.title = Favorites => ex.downloads[i].base = Favorites_expected

\* C26: a title that is empty after trimming, or that has no character of
\* [A-Za-z0-9_-], gives the base name "movie-grid".
C26_DefaultBaseName ==
    \A i \in 1..Len(ex.downloads) :
        (Trim(ex.title) = <<>> \/ \A k \in 1..Len(ex.title) : ~Safe(ex.title[k]))
            => ex.downloads[i].base = movie_grid

\* C27: when the readiness wait of any image of an export begins, every
\* image under the root has a cross-origin mode and a referrer policy:
\* "anonymous" and "no-referrer" where none was set, and the value it had
\* where one was set; no step ever changes a value that was set.
C27_NormalizedBeforeWait ==
    /\ [](\A k \in 1..NImgs : ex.imgs[k].st # "idle" =>
            (ex.imgs[k].normal /\ ex.imgs[k].crossOrigin # ""
                /\ ex.imgs[k].referrerPolicy # ""))
    /\ [][\A k \in 1..NImgs :
            /\ ex'.imgs[k].crossOrigin =
                  IF ex.imgs[k].crossOrigin # "" THEN ex.imgs[k].crossOrigin
                  ELSE IF ex'.imgs[k].st # "idle" THEN "anonymous" ELSE ""
            /\ ex'.imgs[k].referrerPolicy =
                  IF ex.imgs[k].referrerPolicy # "" THEN ex.imgs[k].referrerPolicy
                  ELSE IF ex'.imgs[k].st # "idle" THEN "no-referrer" ELSE ""]_vars

\* C27 witness: an export waits for its images; one of them had an explicit
\* cross-origin mode and kept it, the other had none and is anonymous.
C27_Witness ==
    /\ ex.pc = "waiting" /\ ex.last = "click"
    /\ ex.imgs[1].crossOrigin = "use-credentials" /\ ex.imgs[1].referrerPolicy = "no-referrer"
    /\ ex.imgs[2].crossOrigin = "anonymous" /\ ex.imgs[2].referrerPolicy = "origin"
    /\ \E k \in 1..NImgs : ex.imgs[k].st = "pending"

\* C28: no rasterization attempt is made, and none is in progress, while
\* the readiness of any image under the root is pending: an attempt starts
\* only in a step before which every image had settled, in whatever order
\* the images settled.
C28_RasterAfterAllSettled ==
    /\ []((ex.raster # <<>> \/ ex.pc \in {"png", "jpeg"})
            => \A k \in 1..NImgs : ex.imgs[k].st = "settled")
    /\ [][ex'.raster # ex.raster /\ ex'.raster # <<>>
            => \A k \in 1..NImgs : ex.imgs[k].st = "settled"]_vars

\* C28 witness: the lossless rasterization has started after the second
\* image's decode failed and the first one's succeeded.
C28_Witness ==
    /\ ex.pc = "png" /\ ex.raster = <<"png">> /\ ex.decode
    /\ ex.imgs[1].src = "poster" /\ ex.imgs[2].src = TRANSPARENT_PX
    /\ \A k \in 1..NImgs : ex.imgs[k].st = "settled"

\* C29: the step in which an image's decode fails (or, without decode(),
\* its error event arrives) puts the transparent placeholder in its src and
\* leaves the export going: still waiting or about to rasterize, busy, with
\* no alert and no rejection; this holds whichever images fail, and the
\* export can still end in a download.
C29_FailedImageSubstituted ==
    /\ [][\A k \in 1..NImgs : ImgSettles(k, FALSE) =>
            /\ ex'.imgs[k].src = TRANSPARENT_PX
            /\ ex'.imgs[k].st = "settled"
            /\ \A j \in 1..NImgs : j # k => ex'.imgs[j] = ex.imgs[j]
            /\ ex'.pc = "waiting" /\ ex'.busy
            /\ ~ex'.escaped /\ ex'.alerts = <<>>]_vars
    /\ [](ex.last = "img" => (ex.pc = "waiting" /\ ex.busy /\ ~ex.escaped
                                /\ ex.alerts = <<>> /\ ex.downloads = <<>>))
    /\ [][(ex.last = "img" /\ \A k \in 1..NImgs : ex.imgs[k].st = "settled")
            => \A ok \in BOOLEAN : ENABLED ImportSettles(ok)]_vars

\* C29 witness: every image of the root failed and was replaced, and the
\* export has ended in a download.
C29_Witness ==
    /\ \A k \in 1..NImgs : ex.imgs[k].src = TRANSPARENT_PX
    /\ ex.last = "png" /\ Len(ex.downloads) = 1 /\ ~ex.escaped /\ ex.alerts = <<>>

\* C30: in the books copy the just-committed flag does not outlive the
\* commit: after the commit and the effects it causes the flag is clear, so
\* it is clear when the user next edits the text, and the first edit after
\* a commit that changes the trimmed text to a non-empty one schedules the
\* search for it.
C30_FlagConsumedByCommit ==
    /\ [](variant = "books" => ~justSelected)
    /\ [][(variant = "books" /\ afterCommit /\ ev'.kind = "change"
              /\ Trim(query') # <<>> /\ Trim(query') # Trim(query))
            => (tLive' /\ timers' # <<>> /\ timers'[Len(timers')] = Trim(query'))]_vars

\* the copies whose fetch effect is gated on open
Gated == {"movie", "music"}

C32_RequestForCurrentText ==
    \A i \in 1..Len(issued) : issued[i] = Trim(query)

\* C33: loading is true exactly while some request is in flight that has
\* neither settled nor been cancelled or superseded.
C33_LoadingExact ==
    loading <=> (\E i \in Pending : ~reqs[i].cancelled)

\* C34: Enter pressed while loading is true commits nothing: the callback
\* is not called.
C34_NoCommitWhileLoading ==
    [][(ev'.kind = "Enter" /\ loading) => called' = <<>>]_vars

\* C35: from a commit until the next user event the panel is closed: no
\* timer, response, failure or abort that follows the commit opens it.
C35_ClosedAfterCommit ==
    afterCommit => ~open

\* C36: at most one export is in progress at any time, and busy is true
\* whenever one is, also in the grid whose Generate shares the busy state.
C36_OneExportAtATime ==
    /\ ex.running \in {0, 1}
    /\ ex.running = 1 => ex.busy
    /\ ex.running = (IF ex.pc = "idle" THEN 0 ELSE 1)

\* C36 witness: in the page, whose Generate and Export share busy, an
\* export is in progress after a Generate has run to its end.
C36_Witness ==
    /\ gen.panel = "page" /\ gen.cards[1] \in Data /\ gen.runs = <<>>
    /\ ex.running = 1 /\ ex.busy /\ ex.pc = "png"

\* C37: each ArrowDown / ArrowUp that moves activeIndex calls scrollIntoView
\* on the item at the new activeIndex, and on no other item.
C37_ScrollsNewActive ==
    [][(ev'.kind \in {"ArrowDown", "ArrowUp"} /\ activeIndex' # activeIndex)
        => scrolled' = <<activeIndex'>>]_vars

\* the books copy, whose scroll is an effect on activeIndex, scrolls to the
\* new item whenever the list is on screen (while "Searching..." replaces
\* the list, the keys still move activeIndex and nothing is scrolled)
C37_BooksScrollNew ==
    [][(variant = "books" /\ ev'.kind \in {"ArrowDown", "ArrowUp"}
          /\ activeIndex' # activeIndex)
        => scrolled' = IF ListShown THEN <<activeIndex'>> ELSE <<>>]_vars

\* movie and legacy scroll to the item that was active before the key (none
\* when there was none); music scrolls nothing
C37_OthersScrollPrevious ==
    [][(variant # "books" /\ ev'.kind \in {"ArrowDown", "ArrowUp"}
          /\ activeIndex' # activeIndex)
        => scrolled' = IF variant = "music" \/ ~ListShown \/ activeIndex < 0
                       THEN <<>> ELSE <<activeIndex>>]_vars

\* C38: when a Generate finishes, every slot was processed; a slot whose
\* lookup threw, returned a non-success status or returned no data, and a
\* slot with neither a selection nor typed text, shows the card it showed
\* before; a slot whose lookup succeeded shows the data it returned.
C38_FailedSlotKeepsCard ==
    [][gen'.last.kind = "done" =>
         \A i \in 1..NSlots :
            /\ gen'.last.res[i] # "none"
            /\ gen'.last.res[i] \in Failures \cup {"skipped"}
                 => gen'.cards[i] = gen.cards[i]
            /\ gen'.last.res[i] = "ok" => gen'.cards[i] \in Data]_vars

\* what every copy does: such a slot shows the card that the grid showed
\* when Generate was clicked
C38_FailedSlotKeepsCopiedCard ==
    [][gen'.last.kind = "done" =>
         \A i \in 1..NSlots :
            /\ gen'.last.res[i] # "none"
            /\ gen'.last.res[i] \in Failures \cup {"skipped"}
                 => gen'.cards[i] = gen'.last.movies[i]
            /\ gen'.last.res[i] = "ok" => gen'.cards[i] \in Data]_vars

\* the same in Home, whose Generate button is disabled while busy
C38_FailedSlotKeepsCard_Home ==
    [][(gen'.last.kind = "done" /\ gen.panel = "page") =>
         \A i \in 1..NSlots :
            /\ gen'.last.res[i] # "none"
            /\ gen'.last.res[i] \in Failures \cup {"skipped"}
                 => gen'.cards[i] = gen.cards[i]
            /\ gen'.last.res[i] = "ok" => gen'.cards[i] \in Data]_vars

=============================================================================
